---- MODULE Spec2Model ----
(***************************************************************************)
(* waylyrics: the MPRIS synchronisation engine.                            *)
(*                                                                         *)
(*   src/src/sync/interop/mpris/sync_task.rs   register_sync_task,         *)
(*       sync_position, sync_track, need_fetch_lyric                       *)
(*   src/src/sync/acts/mod.rs                  the user actions            *)
(*                                                                         *)
(* Everything runs on the single glib main loop: one timer callback (the   *)
(* tick), the action handlers, and the futures spawned with glib_spawn!,   *)
(* which are polled between callbacks and suspend inside update_lyric.     *)
(* Option<T> is modelled as a sequence of length 0 or 1.  SystemTime is a  *)
(* bounded integer range; the checked operations fail outside it.          *)
(***************************************************************************)
EXTENDS Integers, Sequences, FiniteSets, TLC

VARIABLES
    ctl,                  \* "running" | "stopped" (ControlFlow::Break) | "panicked"
    PLAYER,               \* thread-local Option<Player>: the registry slot
    TRACK_PLAYING_STATE,  \* thread-local TrackState {metainfo, paused, cache_path}
    LYRIC,                \* thread-local lyric content: None or the track it is for
    lyric_start,          \* window.imp().lyric_start : Option<SystemTime>
    lyric_offset_ms,      \* window.imp().lyric_offset_ms : i64
    labels,               \* the window's "above" and "below" labels
    tasks,                \* futures spawned with glib_spawn!, not yet finished
    tk                    \* what the last timer callback observed and did

vars == <<ctl, PLAYER, TRACK_PLAYING_STATE, LYRIC, lyric_start, lyric_offset_ms,
          labels, tasks, tk>>

(***************************************************************************)
(* Bounds of the model.                                                    *)
(***************************************************************************)
MaxTime == 2
MaxPosition == 2
MaxOffset == 1
MaxTrackId == 2
MaxPlayers == 2
MaxTasks == 2
MaxField == 1

None == <<>>
Some(x) == <<x>>
Opt(S) == {None} \cup {Some(x) : x \in S}

\* SystemTime: the representable instants, counted from the lowest one.
Times == 0..MaxTime
\* Duration reported by Player::get_position.
Positions == 0..MaxPosition
\* the window's signed millisecond offset
Offsets == (0 - MaxOffset)..MaxOffset
Players == 1..MaxPlayers

(***************************************************************************)
(* TrackMeta and the raw MPRIS metadata it is built from.                  *)
(***************************************************************************)
TrackMeta(id, title, album, artists, length) ==
    [unique_id |-> id, title |-> title, album |-> album,
     artists |-> artists, length |-> length]

\* every TrackMeta over small field domains (the comparator's inputs)
AllMetas ==
    {TrackMeta(i, t, al, ar, l) :
        i \in 0..MaxField, t \in Opt(0..MaxField), al \in Opt(0..MaxField),
        ar \in Opt(0..MaxField), l \in Opt(0..MaxField)}

\* the tracks the observed players play; track 1 is also reported with a length
Tracks ==
    {TrackMeta(i, Some(1), None, None, None) : i \in 1..MaxTrackId}
        \cup {TrackMeta(1, Some(1), None, None, Some(1))}

\* mpris::Metadata: track id and title may be absent
RawMeta(id, title, length) ==
    [track_id |-> id, title |-> title, album |-> None, artists |-> None,
     length |-> length]

RawMetas ==
    {RawMeta(Some(m.unique_id), m.title, m.length) : m \in Tracks}
        \cup {RawMeta(None, Some(1), None), RawMeta(Some(1), None, None)}

\* PlayerStatus, the error half of sync_track's result
PlayerStatusKinds == {"Missing", "Unsupported", "Paused"}
Status(kind, reason) == [ok |-> FALSE, kind |-> kind, reason |-> reason]
Ok == [ok |-> TRUE, kind |-> "Ok", reason |-> ""]

(***************************************************************************)
(* Collaborators outside the two source files, modelled at their           *)
(* interface.                                                              *)
(***************************************************************************)
\* TrackState::default(), what TRACK_PLAYING_STATE.take() leaves behind
DefaultTrackState == [metainfo |-> None, paused |-> FALSE, cache_path |-> None]

\* impl TryFrom<Metadata> for TrackMeta: fails without track id or title
TrackMeta_try_from(raw) ==
    IF raw.track_id = None \/ raw.title = None
    THEN None
    ELSE Some(TrackMeta(raw.track_id[1], raw.title, raw.album, raw.artists,
                        raw.length))

\* lyric::cache::get_cache_path: the cache key derived from the track
get_cache_path(track_meta) == Some(track_meta)

EmptyLabel == ""
UnsupportedLabel == "Unsupported Player"
LyricLine(m) == "lyric"

\* utils::reset_lyric_labels
reset_lyric_labels(lb) == [above |-> EmptyLabel, below |-> EmptyLabel]

\* sync::utils::clean_lyric: drops the lyric content
clean_lyric(lyric) == None

\* lyric::scroll::refresh_lyric: shows the line of the loaded lyric, if any
refresh_lyric(lyric, lb) ==
    IF lyric = None THEN lb ELSE [above |-> LyricLine(lyric[1]), below |-> EmptyLabel]

StillCurrent_unguarded(track_meta, ts) == TRUE

\* update_lyric's completion: the fetched lyric is installed only when the
\* track it was fetched for is still the one in TRACK_PLAYING_STATE
StillCurrent(track_meta, ts) == ts.metainfo = Some(track_meta)

update_lyric_done(track_meta, fetched, ts, lyric) ==
    IF fetched /\ StillCurrent(track_meta, ts) THEN Some(track_meta) ELSE lyric

(***************************************************************************)
(* sync_task.rs                                                            *)
(***************************************************************************)
checked_sub_saturating(t, d) == IF t - d < 0 THEN Some(0) ELSE Some(t - d)

\* SystemTime::checked_sub / checked_add
checked_sub(t, d) == IF t - d < 0 THEN None ELSE Some(t - d)
checked_add(t, d) == IF t + d > MaxTime THEN None ELSE Some(t + d)

apply_offset_added(start, offset) == checked_add(start, IF offset < 0 THEN 0 - offset ELSE offset)

\* lines 83-87: the offset applied to start
apply_offset(start, offset) ==
    IF offset < 0 THEN checked_sub(start, 0 - offset) ELSE checked_add(start, offset)

\* sync_position: res is Ok, a PlayerStatus, or the panic of .expect()
Panic == [ok |-> FALSE, kind |-> "Panic", reason |-> "infinite offset time"]

sync_position(env, ls, offset) ==
    IF env.position = None
    THEN [res |-> Status("Unsupported", "cannot get playback position"),
          lyric_start |-> ls]
    ELSE LET start == checked_sub(env.now, env.position[1]) IN
         IF start = None
         THEN [res |-> Status("Unsupported", "Position is greater than SystemTime"),
               lyric_start |-> ls]
         ELSE LET adjusted == apply_offset(start[1], offset) IN
              IF adjusted = None
              THEN [res |-> Panic, lyric_start |-> ls]
              ELSE [res |-> Ok, lyric_start |-> adjusted]

\* lines 159-165: the comparison that skips length
NoLength(m) == [m EXCEPT !.length = None]
SameTrack_full(p, track_meta) == p = track_meta

SameTrack(p, track_meta) == NoLength(p) = NoLength(track_meta)

need_fetch_lyric_stale_path(ts, track_meta) ==
    LET need == ~(ts.metainfo # None /\ SameTrack(ts.metainfo[1], track_meta)) IN
    [need |-> need,
     ts |-> IF need THEN [ts EXCEPT !.metainfo = Some(track_meta)] ELSE ts]

\* need_fetch_lyric: the result and the TrackState it leaves
need_fetch_lyric(ts, track_meta) ==
    LET need == ~(ts.metainfo # None /\ SameTrack(ts.metainfo[1], track_meta)) IN
    [need |-> need,
     ts |-> IF need
            THEN [ts EXCEPT !.metainfo = Some(track_meta),
                            !.cache_path = get_cache_path(track_meta)]
            ELSE ts]

\* sync_track, lines 95-127: the closure over PLAYER that yields the TrackMeta.
\* class names the check that decided the tick.
Classified(class, res, meta, ts, ls) ==
    [class |-> class, res |-> res, meta |-> meta, ts |-> ts, lyric_start |-> ls]

parse_failed_keeps_path(e, ts, ls) ==
    Classified("ParseFail", Status(e, "parse"), None,
               [DefaultTrackState EXCEPT !.cache_path = ts.cache_path], ls)

parse_failed_keeps(e, ts, ls) == Classified("ParseFail", Status(e, "parse"), None, ts, ls)

\* lines 118-123: no track id or title, the TrackState is reset
parse_failed(e, ts, ls) ==
    Classified("ParseFail", Status(e, "parse"), None, DefaultTrackState, ls)

read_player(player, env, ts, ls, offset) ==
    IF player = None
    THEN Classified("Missing", Status("Missing", ""), None, ts, ls)
    ELSE IF ~env.is_running
    THEN Classified("Missing", Status("Missing", ""), None, ts, ls)
    ELSE IF env.progress = None
    THEN Classified("Unsupported", Status("Unsupported", "cannot fetch progress"),
                    None, ts, ls)
    ELSE IF env.progress[1] # "Playing"
    THEN Classified("Paused", Status("Paused", ""), None, ts, ls)
    ELSE IF env.metadata = None
    THEN Classified("Unsupported",
                    Status("Unsupported", "cannot get metadata of track playing"),
                    None, ts, ls)
    ELSE LET pos == sync_position(env, ls, offset) IN
         IF pos.res.kind = "Panic"
         THEN Classified("Panic", pos.res, None, ts, ls)
         ELSE IF ~pos.res.ok
         THEN Classified("Unsupported", pos.res, None, ts, ls)
         ELSE LET meta == TrackMeta_try_from(env.metadata[1]) IN
              IF meta = None
              THEN parse_failed(env.parse_err, ts, pos.lyric_start)
              ELSE Classified("Healthy", Ok, meta, ts, pos.lyric_start)

\* a future spawned with glib_spawn!: the track it fetches the lyric of, and
\* whether it has reached its suspension inside update_lyric
Task(track_meta) == [meta |-> track_meta, pc |-> "spawned"]

sync_track_refresh_unless_fetch(player, env, ts, ls, offset, lyric, lb) ==
    LET r == read_player(player, env, ts, ls, offset) IN
    IF r.class # "Healthy"
    THEN [class |-> r.class, res |-> r.res, cur |-> None, ts |-> r.ts,
          lyric_start |-> r.lyric_start, need |-> FALSE, spawn |-> None,
          refreshed |-> FALSE, labels |-> lb]
    ELSE LET n == need_fetch_lyric(r.ts, r.meta[1]) IN
         [class |-> "Healthy", res |-> Ok, cur |-> r.meta, ts |-> n.ts,
          lyric_start |-> r.lyric_start, need |-> n.need,
          spawn |-> IF n.need THEN Some(Task(r.meta[1])) ELSE None,
          refreshed |-> ~n.need,
          labels |-> IF n.need THEN lb ELSE refresh_lyric(lyric, lb)]

\* sync_track: the whole function.  spawn is the fetch it schedules,
\* refreshed whether refresh_lyric ran.
sync_track(player, env, ts, ls, offset, lyric, lb) ==
    LET r == read_player(player, env, ts, ls, offset) IN
    IF r.class # "Healthy"
    THEN [class |-> r.class, res |-> r.res, cur |-> None, ts |-> r.ts,
          lyric_start |-> r.lyric_start, need |-> FALSE, spawn |-> None,
          refreshed |-> FALSE, labels |-> lb]
    ELSE LET n == need_fetch_lyric(r.ts, r.meta[1]) IN
         [class |-> "Healthy", res |-> Ok, cur |-> r.meta, ts |-> n.ts,
          lyric_start |-> r.lyric_start, need |-> n.need,
          spawn |-> IF n.need THEN Some(Task(r.meta[1])) ELSE None,
          refreshed |-> TRUE, labels |-> refresh_lyric(lyric, lb)]

recover_unsupported_searches(kind, found, s) ==
    CASE kind = "Missing" ->
            [PLAYER |-> found,
             labels |-> reset_lyric_labels(s.labels),
             LYRIC |-> clean_lyric(s.LYRIC),
             ts |-> DefaultTrackState]
      [] kind = "Unsupported" ->
            [s EXCEPT !.PLAYER = found,
                      !.labels = [above |-> UnsupportedLabel, below |-> EmptyLabel],
                      !.LYRIC = clean_lyric(s.LYRIC)]
      [] kind = "Paused" -> [s EXCEPT !.ts.paused = TRUE]
      [] OTHER -> s

recover_paused_cleans(kind, found, s) ==
    CASE kind = "Missing" ->
            [PLAYER |-> found,
             labels |-> reset_lyric_labels(s.labels),
             LYRIC |-> clean_lyric(s.LYRIC),
             ts |-> DefaultTrackState]
      [] kind = "Unsupported" ->
            [s EXCEPT !.labels = [above |-> UnsupportedLabel, below |-> EmptyLabel],
                      !.LYRIC = clean_lyric(s.LYRIC)]
      [] kind = "Paused" -> [s EXCEPT !.ts.paused = TRUE, !.LYRIC = clean_lyric(s.LYRIC)]
      [] OTHER -> s

recover_keeps_player(kind, found, s) ==
    CASE kind = "Missing" ->
            [PLAYER |-> IF found = None THEN s.PLAYER ELSE found,
             labels |-> reset_lyric_labels(s.labels),
             LYRIC |-> clean_lyric(s.LYRIC),
             ts |-> DefaultTrackState]
      [] kind = "Unsupported" ->
            [s EXCEPT !.labels = [above |-> UnsupportedLabel, below |-> EmptyLabel],
                      !.LYRIC = clean_lyric(s.LYRIC)]
      [] kind = "Paused" -> [s EXCEPT !.ts.paused = TRUE]
      [] OTHER -> s

\* register_sync_task, lines 40-66: the match on sync_track's result.
\* s holds the registry slot, the TrackState, the lyric and the labels.
recover(kind, found, s) ==
    CASE kind = "Missing" ->
            [PLAYER |-> found,
             labels |-> reset_lyric_labels(s.labels),
             LYRIC |-> clean_lyric(s.LYRIC),
             ts |-> DefaultTrackState]
      [] kind = "Unsupported" ->
            [s EXCEPT !.labels = [above |-> UnsupportedLabel, below |-> EmptyLabel],
                      !.LYRIC = clean_lyric(s.LYRIC)]
      [] kind = "Paused" -> [s EXCEPT !.ts.paused = TRUE]
      [] OTHER -> s

(***************************************************************************)
(* What one timer callback can observe: the answers of the queries it      *)
(* makes.  A query the callback does not reach has no answer (the default  *)
(* of NoEnv).                                                              *)
(***************************************************************************)
NoEnv ==
    [app |-> TRUE, windows |-> TRUE, is_running |-> FALSE, progress |-> None,
     metadata |-> None, position |-> None, now |-> 0, parse_err |-> "Missing",
     find_active |-> None]

PlayingEnv == [NoEnv EXCEPT !.is_running = TRUE, !.progress = Some("Playing")]

\* the callbacks that end before the player is asked anything
IdleEnvs(players) ==
    {[NoEnv EXCEPT !.app = FALSE], [NoEnv EXCEPT !.windows = FALSE]}
    \cup {[NoEnv EXCEPT !.find_active = f] : f \in Opt(players)}

\* the callbacks that ask a bound, running player
PlayerEnvs(raws, positions, times) ==
    {[NoEnv EXCEPT !.is_running = TRUE]}
    \cup {[NoEnv EXCEPT !.is_running = TRUE, !.progress = Some(st)] :
              st \in {"Paused", "Stopped"}}
    \cup {PlayingEnv}
    \cup {[PlayingEnv EXCEPT !.metadata = Some(raw)] : raw \in raws}
    \cup {[PlayingEnv EXCEPT !.metadata = Some(raw), !.position = Some(p),
                             !.now = t] :
              raw \in {x \in raws : TrackMeta_try_from(x) # None},
              p \in positions, t \in times}
    \cup {[PlayingEnv EXCEPT !.metadata = Some(raw), !.position = Some(p),
                             !.now = t, !.parse_err = e] :
              raw \in {x \in raws : TrackMeta_try_from(x) = None},
              p \in positions, t \in times, e \in PlayerStatusKinds}

\* Spec: every track and player, the clock and the position in a small range
TrackEnvs ==
    [idle |-> IdleEnvs(Players),
     asked |-> PlayerEnvs(RawMetas, 0..1, {MaxTime}),
     keep |-> FALSE]

\* SpecPos: one player and one track, every clock value, position and offset
OneTrack == {RawMeta(Some(1), Some(1), None), RawMeta(None, Some(1), None)}

TimeEnvs ==
    [idle |-> IdleEnvs({1}),
     asked |-> PlayerEnvs(OneTrack, Positions, Times),
     keep |-> FALSE]

\* SpecOrd: one player and one track, every combination of answers, whether
\* or not the callback gets to ask for them
AllAnswers ==
    {[app |-> TRUE, windows |-> TRUE, is_running |-> run, progress |-> st,
      metadata |-> raw, position |-> p, now |-> t, parse_err |-> "Unsupported",
      find_active |-> f] :
        run \in BOOLEAN, st \in Opt({"Playing", "Paused"}), raw \in Opt(OneTrack),
        p \in Opt(0..1), t \in 0..1, f \in Opt({1})}

OrderEnvs ==
    [idle |-> IdleEnvs({1}) \cup AllAnswers,
     asked |-> AllAnswers,
     keep |-> TRUE]

Envs(E, player) == IF player = None THEN E.idle ELSE E.idle \cup E.asked

\* the record of a callback: its classification and what it observed
NoTick ==
    [n |-> 0, class |-> "Init", res |-> Ok, now |-> None, position |-> None,
     cur |-> None, need |-> FALSE, spawned |-> FALSE, refreshed |-> FALSE,
     searched |-> FALSE, found |-> None, env |-> None]

\* keep: whether the record holds every answer, asked for or not
Observed(n, env, r, keep) ==
    LET posSeen == r.class \in {"Healthy", "ParseFail", "Panic"}
                   \/ r.res.reason = "Position is greater than SystemTime" IN
    [n |-> n, class |-> r.class, res |-> r.res,
     now |-> IF posSeen THEN Some(env.now) ELSE None,
     position |-> IF posSeen THEN env.position ELSE None,
     cur |-> r.cur, need |-> r.need, spawned |-> r.spawn # None,
     refreshed |-> r.refreshed,
     searched |-> r.res.kind = "Missing",
     found |-> IF r.res.kind = "Missing" THEN env.find_active ELSE None,
     env |-> IF keep THEN Some(env) ELSE None]

(***************************************************************************)
(* The state machine.                                                      *)
(***************************************************************************)
\* the TrackState that holds track p, if any
Stored(p) ==
    [metainfo |-> p, paused |-> FALSE,
     cache_path |-> IF p = None THEN None ELSE get_cache_path(p[1])]

Started(offsets, stored) ==
    /\ ctl = "running"
    /\ PLAYER = None
    /\ TRACK_PLAYING_STATE \in {Stored(p) : p \in stored}
    /\ LYRIC = None
    /\ lyric_start = None
    /\ lyric_offset_ms \in offsets
    /\ labels = [above |-> EmptyLabel, below |-> EmptyLabel]
    /\ tasks = <<>>
    /\ tk = NoTick

Init == Started({0}, {None})

InitPos == Started(Offsets, {None})

\* register_sync_task: one firing of the timer callback
Tick(E) ==
    /\ ctl = "running"
    /\ \E env \in Envs(E, PLAYER) :
         IF ~env.app
         THEN /\ ctl' = "stopped"
              /\ tk' = [NoTick EXCEPT !.n = 1 - tk.n, !.class = "Break",
                                      !.env = IF E.keep THEN Some(env) ELSE None]
              /\ UNCHANGED <<PLAYER, TRACK_PLAYING_STATE, LYRIC, lyric_start,
                             lyric_offset_ms, labels, tasks>>
         ELSE IF ~env.windows
         THEN /\ tk' = [NoTick EXCEPT !.n = 1 - tk.n, !.class = "NoWindow",
                                      !.env = IF E.keep THEN Some(env) ELSE None]
              /\ UNCHANGED <<ctl, PLAYER, TRACK_PLAYING_STATE, LYRIC, lyric_start,
                             lyric_offset_ms, labels, tasks>>
         ELSE \E r \in {sync_track(PLAYER, env, TRACK_PLAYING_STATE, lyric_start,
                                  lyric_offset_ms, LYRIC, labels)} :
              \E s \in {recover(r.res.kind, env.find_active,
                               [PLAYER |-> PLAYER, ts |-> r.ts, LYRIC |-> LYRIC,
                                labels |-> r.labels])} :
                  /\ Len(tasks) + Len(r.spawn) <= MaxTasks
                  /\ ctl' = IF r.res.kind = "Panic" THEN "panicked" ELSE ctl
                  /\ PLAYER' = s.PLAYER
                  /\ TRACK_PLAYING_STATE' = s.ts
                  /\ LYRIC' = s.LYRIC
                  /\ labels' = s.labels
                  /\ lyric_start' = r.lyric_start
                  /\ tasks' = tasks \o r.spawn
                  /\ tk' = Observed(1 - tk.n, env, r, E.keep)
                  /\ UNCHANGED lyric_offset_ms

Remove(q, i) == SubSeq(q, 1, i - 1) \o SubSeq(q, i + 1, Len(q))

\* the spawned future up to its first suspension inside update_lyric
TaskStart ==
    /\ ctl = "running"
    /\ \E i \in 1..Len(tasks) :
         /\ tasks[i].pc = "spawned"
         /\ \E window \in BOOLEAN :
              IF window
              THEN /\ labels' = reset_lyric_labels(labels)
                   /\ tasks' = [tasks EXCEPT ![i].pc = "awaiting"]
              ELSE /\ tasks' = Remove(tasks, i)
                   /\ UNCHANGED labels
    /\ UNCHANGED <<ctl, PLAYER, TRACK_PLAYING_STATE, LYRIC, lyric_start,
                   lyric_offset_ms, tk>>

\* the fetch of a suspended future returns, in any order
TaskDone ==
    /\ ctl = "running"
    /\ \E i \in 1..Len(tasks) :
         /\ tasks[i].pc = "awaiting"
         /\ \E fetched \in BOOLEAN :
              LYRIC' = update_lyric_done(tasks[i].meta, fetched,
                                         TRACK_PLAYING_STATE, LYRIC)
         /\ tasks' = Remove(tasks, i)
    /\ UNCHANGED <<ctl, PLAYER, TRACK_PLAYING_STATE, lyric_start, lyric_offset_ms,
                   labels, tk>>

\* acts/mod.rs: register_reload_lyric and register_refetch_lyric.  They differ
\* in ignore_cache, which only the lyric cache reads.
spawn_update(ignore_cache) ==
    /\ ctl = "running"
    /\ TRACK_PLAYING_STATE.metainfo # None
    /\ Len(tasks) < MaxTasks
    /\ tasks' = Append(tasks, Task(TRACK_PLAYING_STATE.metainfo[1]))
    /\ UNCHANGED <<ctl, PLAYER, TRACK_PLAYING_STATE, LYRIC, lyric_start,
                   lyric_offset_ms, labels, tk>>

ReloadLyric == spawn_update(FALSE)

RefetchLyric == spawn_update(TRUE)

\* acts/mod.rs: register_remove_lyric
RemoveLyric ==
    /\ ctl = "running"
    /\ LYRIC' = None
    /\ labels' = reset_lyric_labels(labels)
    /\ UNCHANGED <<ctl, PLAYER, TRACK_PLAYING_STATE, lyric_start, lyric_offset_ms,
                   tasks, tk>>

\* acts/mod.rs: register_disconnect (clean_player)
Disconnect ==
    /\ ctl = "running"
    /\ PLAYER' = None
    /\ UNCHANGED <<ctl, TRACK_PLAYING_STATE, LYRIC, lyric_start, lyric_offset_ms,
                   labels, tasks, tk>>

\* acts/mod.rs: register_connect (connect_player_with_id)
Connect ==
    /\ ctl = "running"
    /\ \E p \in Players : PLAYER' = Some(p)
    /\ UNCHANGED <<ctl, TRACK_PLAYING_STATE, LYRIC, lyric_start, lyric_offset_ms,
                   labels, tasks, tk>>

SyncTick == Tick(TrackEnvs)

Next ==
    \/ SyncTick
    \/ TaskStart
    \/ TaskDone
    \/ ReloadLyric
    \/ RefetchLyric
    \/ RemoveLyric
    \/ Disconnect
    \/ Connect

Spec == Init /\ [][Next]_vars

\* the position estimator under every clock value, position and offset
PosTick == Tick(TimeEnvs)

NextPos ==
    \/ PosTick
    \/ TaskStart
    \/ TaskDone

SpecPos == InitPos /\ [][NextPos]_vars

\* the callback alone, under every combination of answers and every offset
OrdTick == Tick(OrderEnvs)

SpecOrd == InitPos /\ [][OrdTick]_vars

\* the comparator alone, on every pair of a stored and a current TrackMeta
InitCmp == Started({0}, Opt(AllMetas))

Compare ==
    /\ tk.class = "Init"
    /\ \E track_meta \in AllMetas :
         \E r \in {need_fetch_lyric(TRACK_PLAYING_STATE, track_meta)} :
            /\ TRACK_PLAYING_STATE' = r.ts
            /\ tk' = [NoTick EXCEPT !.n = 1, !.class = "Compared",
                                    !.cur = Some(track_meta), !.need = r.need]
    /\ UNCHANGED <<ctl, PLAYER, LYRIC, lyric_start, lyric_offset_ms, labels, tasks>>

SpecCmp == InitCmp /\ [][Compare]_vars

(***************************************************************************)
(* Properties.                                                             *)
(***************************************************************************)
\* a step of the timer callback
IsTick == tk'.n # tk.n

\* a and b agree in every field but length
SameButLength(a, b) ==
    /\ a.unique_id = b.unique_id
    /\ a.title = b.title
    /\ a.album = b.album
    /\ a.artists = b.artists

\* C1: need_fetch_lyric returns false exactly when a TrackMeta is stored and
\* it equals the current one in id, title, album and artists; a difference
\* in length alone never yields true.
C1_NeedFetchIffChanged ==
    [][tk'.class = "Compared" =>
         (tk'.need <=>
            ~(/\ TRACK_PLAYING_STATE.metainfo # None
              /\ SameButLength(TRACK_PLAYING_STATE.metainfo[1], tk'.cur[1])))]_vars

C1_Witness ==
    /\ tk.class = "Compared"
    /\ ~tk.need
    /\ TRACK_PLAYING_STATE.metainfo # None
    /\ tk.cur[1].length # TRACK_PLAYING_STATE.metainfo[1].length

Abs(x) == IF x < 0 THEN 0 - x ELSE x

\* the callback reached sync_position and every step of it succeeded
PositionSynced == tk.class \in {"Healthy", "ParseFail"}

\* C2: when the position query succeeds and no checked operation fails,
\* lyric_start is now - position + offset for an offset >= 0 and
\* now - position - |offset| for an offset < 0.
C2_PositionEstimate ==
    PositionSynced =>
        lyric_start =
            Some(IF lyric_offset_ms >= 0
                 THEN tk.now[1] - tk.position[1] + lyric_offset_ms
                 ELSE tk.now[1] - tk.position[1] - Abs(lyric_offset_ms))

C2_Witness ==
    /\ tk.class = "Healthy"
    /\ lyric_offset_ms < 0
    /\ tk.position[1] > 0
    /\ lyric_start = Some(tk.now[1] - tk.position[1] - 1)

\* C3: a position larger than the current time (now - position underflows)
\* makes the callback yield Unsupported without a panic, and lyric_start is
\* not written.
C3_UnderflowIsUnsupported ==
    [][(IsTick /\ tk'.position # None /\ tk'.position[1] > tk'.now[1]) =>
         /\ tk'.class = "Unsupported"
         /\ tk'.res.kind = "Unsupported"
         /\ ctl' = "running"
         /\ lyric_start' = lyric_start]_vars

C3_Witness ==
    /\ tk.position # None
    /\ tk.position[1] > tk.now[1]
    /\ tk.res.reason = "Position is greater than SystemTime"
    /\ lyric_start # None

\* start = now - position is representable, start with the offset is not
OffsetOutOfRange ==
    /\ tk.position # None
    /\ tk.now[1] - tk.position[1] >= 0
    /\ \/ tk.now[1] - tk.position[1] + lyric_offset_ms < 0
       \/ tk.now[1] - tk.position[1] + lyric_offset_ms > MaxTime

\* C4: when applying the offset to start overflows or underflows, the
\* callback signals Unsupported instead of panicking, and the loop goes on.
C4_OffsetOverflowIsUnsupported ==
    OffsetOutOfRange => (tk.res.kind = "Unsupported" /\ ctl = "running")

\* C5: a callback classified Paused sets paused and leaves the stored track,
\* the cache path, the registry slot, lyric_start, the lyric and the labels
\* as they were, and schedules no fetch.
C5_PausedFrame ==
    [][(IsTick /\ tk'.class = "Paused") =>
         /\ TRACK_PLAYING_STATE' = [TRACK_PLAYING_STATE EXCEPT !.paused = TRUE]
         /\ PLAYER' = PLAYER
         /\ lyric_start' = lyric_start
         /\ LYRIC' = LYRIC
         /\ labels' = labels
         /\ tasks' = tasks
         /\ ~tk'.spawned]_vars

C5_Witness ==
    /\ tk.class = "Paused"
    /\ TRACK_PLAYING_STATE.paused
    /\ TRACK_PLAYING_STATE.metainfo # None
    /\ TRACK_PLAYING_STATE.cache_path # None
    /\ LYRIC # None
    /\ labels.above = "lyric"
    /\ lyric_start # None

\* C6: after a callback classified Missing the TrackState is the cleared
\* one, the labels and the lyric are reset, and the registry slot holds the
\* player find_active returned, or None when it failed.
C6_MissingResets ==
    [][(IsTick /\ tk'.class = "Missing") =>
         /\ TRACK_PLAYING_STATE' =
                [metainfo |-> None, paused |-> FALSE, cache_path |-> None]
         /\ LYRIC' = None
         /\ labels' = [above |-> "", below |-> ""]
         /\ tk'.searched
         /\ PLAYER' = tk'.found]_vars

\* the bound player was gone, none was found, and the fetches still in flight
\* show that a track had been stored
C6_Witness ==
    /\ tk.class = "Missing"
    /\ tk.found = None
    /\ PLAYER = None
    /\ TRACK_PLAYING_STATE.metainfo = None
    /\ tasks # <<>>

\* C7: on a healthy callback a fetch is scheduled exactly when the track
\* changed; then the TrackMeta and its cache path are stored and one task
\* for it is spawned, otherwise (also with another length) nothing is
\* spawned and both fields keep their values.
C7_FetchIffChanged ==
    [][(IsTick /\ tk'.class = "Healthy") =>
         LET prev == TRACK_PLAYING_STATE.metainfo
             cur == tk'.cur[1]
             changed == prev = None \/ ~SameButLength(prev[1], cur)
         IN  /\ tk'.spawned <=> changed
             /\ tk'.need <=> changed
             /\ changed =>
                  /\ TRACK_PLAYING_STATE'.metainfo = Some(cur)
                  /\ TRACK_PLAYING_STATE'.cache_path = get_cache_path(cur)
                  /\ tasks' = Append(tasks, [meta |-> cur, pc |-> "spawned"])
             /\ ~changed =>
                  /\ tasks' = tasks
                  /\ TRACK_PLAYING_STATE'.metainfo = prev
                  /\ TRACK_PLAYING_STATE'.cache_path =
                         TRACK_PLAYING_STATE.cache_path]_vars

\* the same track came back with another length and nothing was spawned
C7_Witness ==
    /\ tk.class = "Healthy"
    /\ ~tk.spawned
    /\ tk.cur # TRACK_PLAYING_STATE.metainfo
    /\ TRACK_PLAYING_STATE.cache_path # get_cache_path(tk.cur[1])

\* C8: a fetched lyric is installed only by a task whose track is the one
\* stored in TRACK_PLAYING_STATE when the fetch returns; the result of a
\* fetch for an earlier track is never installed after a later change.
C8_NoStaleFetchApplied ==
    [][(LYRIC' # LYRIC /\ LYRIC' # None) =>
         /\ LYRIC' = TRACK_PLAYING_STATE.metainfo
         /\ \E i \in 1..Len(tasks) :
              /\ tasks[i].pc = "awaiting"
              /\ Some(tasks[i].meta) = LYRIC'
              /\ Len(tasks') = Len(tasks) - 1]_vars

\* the later fetch has returned and was installed while the fetch for the
\* earlier track is still in flight
C8_Witness ==
    /\ LYRIC # None
    /\ LYRIC = TRACK_PLAYING_STATE.metainfo
    /\ \E i \in 1..Len(tasks) :
         /\ tasks[i].pc = "awaiting"
         /\ tasks[i].meta.unique_id # LYRIC[1].unique_id

\* C9: refresh_lyric never runs with the lyric of a track other than the one
\* stored in TRACK_PLAYING_STATE.
C9_RefreshUsesCurrentLyric ==
    [][(IsTick /\ tk'.refreshed /\ LYRIC' # None) =>
         LYRIC' = TRACK_PLAYING_STATE'.metainfo]_vars

\* C10: a callback whose metadata lacks track id or title clears the stored
\* track and cache path, schedules no fetch and does not run refresh_lyric.
C10_ParseFailureClears ==
    [][(IsTick /\ tk'.class = "ParseFail") =>
         /\ TRACK_PLAYING_STATE'.metainfo = None
         /\ TRACK_PLAYING_STATE'.cache_path = None
         /\ tasks' = tasks
         /\ ~tk'.spawned
         /\ ~tk'.refreshed]_vars

\* the fetch still in flight shows that a track was stored before
C10_Witness ==
    /\ tk.class = "ParseFail"
    /\ TRACK_PLAYING_STATE.metainfo = None
    /\ tasks # <<>>

\* C11: a callback whose metadata conversion fails runs no arm of the match
\* on sync_track's result: the labels, the lyric and the registry slot are
\* as before, no player is searched and paused is not set.
C11_ParseFailureNotPropagated ==
    [][(IsTick /\ tk'.class = "ParseFail") =>
         /\ labels' = labels
         /\ LYRIC' = LYRIC
         /\ PLAYER' = PLAYER
         /\ ~tk'.searched
         /\ ~TRACK_PLAYING_STATE'.paused]_vars

\* the check that fails first, in the order: player bound, player running,
\* progress tracker, playback status, metadata, position and start, id and
\* title
FirstFailing(player, env) ==
    IF player = None THEN "Missing"
    ELSE IF ~env.is_running THEN "Missing"
    ELSE IF env.progress = None THEN "Unsupported"
    ELSE IF env.progress[1] # "Playing" THEN "Paused"
    ELSE IF env.metadata = None THEN "Unsupported"
    ELSE IF env.position = None \/ env.position[1] > env.now THEN "Unsupported"
    ELSE IF env.metadata[1].track_id = None \/ env.metadata[1].title = None
    THEN "ParseFail"
    ELSE "Healthy"

\* C12: every callback that reaches sync_track is classified by the first
\* failing check of the fixed order, whatever the later queries would
\* return; a player that is not playing gives Paused with no metadata or
\* position query.
C12_FirstFailingCheckDecides ==
    [][(IsTick /\ tk'.env # None /\ tk'.env[1].app /\ tk'.env[1].windows) =>
         /\ tk'.class = FirstFailing(PLAYER, tk'.env[1])
         /\ tk'.class = "Paused" => (tk'.position = None /\ tk'.now = None)]_vars

\* the same order on the callbacks that end with a classification, that is
\* all but those that panic in sync_position
OrderWhenClassified ==
    [][(IsTick /\ tk'.env # None /\ tk'.env[1].app /\ tk'.env[1].windows
          /\ tk'.class # "Panic") =>
         /\ tk'.class = FirstFailing(PLAYER, tk'.env[1])
         /\ tk'.class = "Paused" => (tk'.position = None /\ tk'.now = None)]_vars

\* C13: a callback returns Continue (the loop keeps running) whenever the
\* application handle upgrades, whatever sync_track yields, and Break only
\* when it does not; a callback that finds no window changes neither the
\* TrackState, the registry slot, lyric_start nor the lyric.
C13_LoopNeverStops ==
    [][(IsTick /\ tk'.env # None) =>
         /\ ctl' = IF tk'.env[1].app THEN "running" ELSE "stopped"
         /\ (tk'.env[1].app /\ ~tk'.env[1].windows) =>
               UNCHANGED <<TRACK_PLAYING_STATE, PLAYER, lyric_start, LYRIC>>]_vars

\* the same on the callbacks that do not panic in sync_position
ContinueUnlessPanic ==
    [][(IsTick /\ tk'.env # None /\ tk'.class # "Panic") =>
         /\ ctl' = IF tk'.env[1].app THEN "running" ELSE "stopped"
         /\ (tk'.env[1].app /\ ~tk'.env[1].windows) =>
               UNCHANGED <<TRACK_PLAYING_STATE, PLAYER, lyric_start, LYRIC>>]_vars

\* C14: a callback classified Unsupported searches no player and leaves the
\* registry slot as it is; the above label becomes "Unsupported Player", the
\* below label becomes empty and the lyric is cleared.
C14_UnsupportedFrame ==
    [][(IsTick /\ tk'.res.kind = "Unsupported") =>
         /\ PLAYER' = PLAYER
         /\ ~tk'.searched
         /\ labels' = [above |-> "Unsupported Player", below |-> ""]
         /\ LYRIC' = None]_vars

C14_Witness ==
    /\ tk.class = "Unsupported"
    /\ PLAYER # None
    /\ labels.above = "Unsupported Player"
    /\ LYRIC = None
    /\ TRACK_PLAYING_STATE.metainfo # None

\* C15: every healthy callback, with or without a track change and with or
\* without a fetch scheduled, sets lyric_start to now - position + offset
\* and runs refresh_lyric once, on the lyric as it is after the change check.
C15_HealthyTickSyncsAndRefreshes ==
    [][(IsTick /\ tk'.class = "Healthy") =>
         /\ lyric_start' = Some(tk'.now[1] - tk'.position[1] + lyric_offset_ms)
         /\ tk'.refreshed
         /\ labels' = refresh_lyric(LYRIC, labels)
         /\ tk'.spawned = tk'.need]_vars

C15_Witness ==
    /\ tk.class = "Healthy"
    /\ ~tk.need
    /\ tk.refreshed
    /\ lyric_offset_ms # 0
    /\ lyric_start = Some(tk.now[1] - tk.position[1] + lyric_offset_ms)
    /\ LYRIC # None

\* C16: when the previous callback ran the Missing or the Unsupported arm,
\* which clean the lyric, and no lyric was set and no fetch is pending since,
\* a healthy callback schedules a fetch for the track playing.
C16_FetchAfterRecovery ==
    [][(/\ IsTick
        /\ tk.res.kind \in {"Missing", "Unsupported"}
        /\ LYRIC = None
        /\ tasks = <<>>
        /\ tk'.class = "Healthy") =>
         /\ tk'.spawned
         /\ tasks' = <<Task(tk'.cur[1])>>]_vars

\* the same after the Missing arm alone, which also takes the TrackState
FetchAfterMissing ==
    [][(/\ IsTick
        /\ tk.res.kind = "Missing"
        /\ LYRIC = None
        /\ tasks = <<>>
        /\ tk'.class = "Healthy") =>
         /\ tk'.spawned
         /\ tasks' = <<Task(tk'.cur[1])>>]_vars

\* C17: paused follows the latest classification: a healthy callback that
\* comes after a Paused one leaves paused false, and paused is true only
\* when the latest callback was classified Paused.
C17_PausedFollowsClassification ==
    [][(IsTick /\ tk.class = "Paused" /\ tk'.class = "Healthy") =>
         ~TRACK_PLAYING_STATE'.paused]_vars

\* C18: in every state the cache path agrees with the stored track: no
\* track stored, no cache path; track m stored, the cache path computed
\* from m.
C18_CachePathMatchesMetainfo ==
    IF TRACK_PLAYING_STATE.metainfo = None
    THEN TRACK_PLAYING_STATE.cache_path = None
    ELSE TRACK_PLAYING_STATE.cache_path
             = get_cache_path(TRACK_PLAYING_STATE.metainfo[1])

C18_Witness ==
    /\ tk.class = "Healthy"
    /\ ~tk.need
    /\ TRACK_PLAYING_STATE.metainfo # None
    /\ tk.cur # TRACK_PLAYING_STATE.metainfo
    /\ TRACK_PLAYING_STATE.cache_path
           = get_cache_path(TRACK_PLAYING_STATE.metainfo[1])
    /\ TRACK_PLAYING_STATE.cache_path # get_cache_path(tk.cur[1])

\* C19: a callback that ends Missing, Unsupported, Paused or with a metadata
\* parse failure leaves lyric_start as it was; only a callback that
\* completes the healthy path writes it.
C19_OnlyHealthyWritesLyricStart ==
    [][lyric_start' # lyric_start => (IsTick /\ tk'.class = "Healthy")]_vars

\* lyric_start is written by the callbacks that get past sync_position, and
\* by no other step
OnlyPositionSyncWritesLyricStart ==
    [][lyric_start' # lyric_start =>
         (IsTick /\ tk'.class \in {"Healthy", "ParseFail"})]_vars

\* the callback of this step has a window and asks a player that is running
\* and playing, with metadata that has id and title and a position not
\* greater than now
PlayingValidTrack(env) ==
    /\ env.app /\ env.windows
    /\ env.is_running
    /\ env.progress = Some("Playing")
    /\ env.metadata # None /\ TrackMeta_try_from(env.metadata[1]) # None
    /\ env.position # None /\ env.position[1] <= env.now

\* C20: from an unbound registry slot, a callback with a window binds the
\* active player it finds, and when that player is playing a track with
\* valid metadata and position the next callback stores the track and
\* schedules the fetch of its lyric: two callbacks in all.
C20_RecoveryWithinTwoTicks ==
    [][(IsTick /\ tk'.env # None) =>
         /\ (/\ PLAYER = None
             /\ tk'.env[1].app /\ tk'.env[1].windows
             /\ tk'.env[1].find_active # None) =>
               PLAYER' = tk'.env[1].find_active
         /\ (/\ tk.class = "Missing" /\ tk.found # None /\ PLAYER = tk.found
             /\ PlayingValidTrack(tk'.env[1])) =>
               /\ PLAYER' = PLAYER
               /\ TRACK_PLAYING_STATE'.metainfo
                      = TrackMeta_try_from(tk'.env[1].metadata[1])
               /\ tk'.spawned
               /\ tasks' = Append(tasks, Task(TRACK_PLAYING_STATE'.metainfo[1]))]_vars

\* the same when the second callback does not panic in sync_position
RecoveryUnlessPanic ==
    [][(IsTick /\ tk'.env # None /\ tk'.class # "Panic") =>
         /\ (/\ PLAYER = None
             /\ tk'.env[1].app /\ tk'.env[1].windows
             /\ tk'.env[1].find_active # None) =>
               PLAYER' = tk'.env[1].find_active
         /\ (/\ tk.class = "Missing" /\ tk.found # None /\ PLAYER = tk.found
             /\ PlayingValidTrack(tk'.env[1])) =>
               /\ PLAYER' = PLAYER
               /\ TRACK_PLAYING_STATE'.metainfo
                      = TrackMeta_try_from(tk'.env[1].metadata[1])
               /\ tk'.spawned
               /\ tasks' = Append(tasks, Task(TRACK_PLAYING_STATE'.metainfo[1]))]_vars

====
